---- MODULE Spec2Model ----
(***************************************************************************)
(* Compaction core of mini-lsm (mini-lsm-starter/src/compact.rs) and the   *)
(* SST metadata of mini-lsm-starter/src/table.rs.                          *)
(*                                                                         *)
(* An SST is an immutable sorted run of entries; an entry is a record      *)
(* [key, value]; the empty value (a tombstone) is the number 0.            *)
(* The storage state is the record behind `self.state`: l0_sstables        *)
(* (newest first), levels (levels[1] is L1) and sstables (the ids that     *)
(* have a handle).  Threads: "ff" is a caller of force_full_compaction,    *)
(* "tc" is the background compaction thread running trigger_compaction;    *)
(* the flush thread writes memtables out as L0 SSTs and a reader serves    *)
(* reads from a cloned snapshot.                                           *)
(***************************************************************************)
EXTENDS Integers, Sequences, FiniteSets, TLC

\* ---------------------------------------------------------------- bounds
\* Keys are 1..MaxKey.
MaxKey == 2
\* Cap on next_sst_id in the concurrent specification.
MaxId == 4
\* Longest merged stream handed to compact_generate_sst_from_iter on its own.
MaxStreamLen == 3
\* Largest target_sst_size tried on compact_generate_sst_from_iter on its own.
MaxTarget == 3
\* Longest key of a block meta.
MaxKeyLen == 2
\* Most block metas in an SST's meta region.
MaxMetas == 2
\* Most blocks of an SST that find_block_idx searches.
MaxBlocks == 4

\* ------------------------------------------------------ program options
\* self.options.target_sst_size, counted in entries
TargetSstSize == 1
\* SimpleLeveledCompactionOptions
Level0FileNumCompactionTrigger == 1
SizeRatioPercent == 100
MaxLevels == 2

Keys == 1..MaxKey
Tomb == 0
Values == {Tomb, 1}
Procs == {"ff", "tc"}
\* The background threads.
Threads == {"compaction", "flush"}
\* CompactionOptions
Options == {"NoCompaction", "Simple", "Leveled", "Tiered"}

VARIABLES
    state,          \* the published snapshot (Arc<LsmStorageState>)
    sstData,        \* id -> entries of the SST built under that id
    files,          \* ids whose file exists on disk
    next_sst_id,    \* the id counter
    id_cap,         \* no id above this one is handed out
    state_lock,     \* holder of self.state_lock, or "none"
    pc,             \* position of each compaction caller
    task,           \* the CompactionTask each caller runs
    iter,           \* the merged stream still to consume
    new_ssts,       \* ids of the output SSTs built so far
    new_snapshot,   \* the state a caller is about to publish
    to_remove,      \* files still to unlink
    committed,      \* whether the current call has published
    retired,        \* ids that some commit removed from sstables
    rsnap,          \* the snapshot a reader cloned, or NoSnap
    rres,           \* how the reader's last read ended
    call,           \* a function applied on its own: its input and result
    compaction_options, \* self.options.compaction_options
    rx,             \* per background thread: its shutdown channel is readable
    returned        \* per background thread: its closure has returned

sysVars == <<state, sstData, files, next_sst_id, id_cap, state_lock, retired>>
procVars == <<pc, task, iter, new_ssts, new_snapshot, to_remove, committed>>
readVars == <<rsnap, rres>>
threadVars == <<compaction_options, rx, returned>>
vars == <<sysVars, procVars, readVars, call, threadVars>>

\* ------------------------------------------------------------- helpers
Range(s) == {s[i] : i \in DOMAIN s}

Min(S) == CHOOSE x \in S : \A y \in S : x <= y

RECURSIVE Filter(_, _)
Filter(s, keep) ==
    IF s = <<>> THEN <<>>
    ELSE IF Head(s) \in keep THEN <<Head(s)>> \o Filter(Tail(s), keep)
         ELSE Filter(Tail(s), keep)

RECURSIVE Flatten(_)
Flatten(ss) == IF ss = <<>> THEN <<>> ELSE Head(ss) \o Flatten(Tail(ss))

KeysOf(entries) == {entries[i].key : i \in DOMAIN entries}

\* Strictly increasing keys: the order of a memtable and of every SST.
IsSorted(entries) ==
    \A i \in 1..(Len(entries) - 1) : entries[i].key < entries[i + 1].key

Entry(k, v) == [key |-> k, value |-> v]

\* The sorted run holding m[k] for every key k >= from with m[k] # -1.
RECURSIVE RunOf(_, _)
RunOf(m, from) ==
    IF from \notin DOMAIN m THEN <<>>
    ELSE IF m[from] = -1 THEN RunOf(m, from + 1)
         ELSE <<Entry(from, m[from])>> \o RunOf(m, from + 1)

\* Every sorted run over (1..n) x Values, the empty one included.
Runs(n) == {RunOf(m, 1) : m \in [1..n -> Values \cup {-1}]}

\* ----------------------------------------------------------- iterators
\* SsTableIterator::create_and_seek_to_first
SsTableIterator(id) == sstData[id]

\* SstConcatIterator::create_and_seek_to_first: the SSTs one after another.
SstConcatIterator(ids) == Flatten([i \in DOMAIN ids |-> sstData[ids[i]]])

\* MergeIterator::create: k-way merge; on equal keys the smallest index
\* wins and the others at that key are advanced.
RECURSIVE MergeIterator(_)
MergeIterator(iters) ==
    LET valid == {i \in DOMAIN iters : iters[i] # <<>>}
    IN  IF valid = {} THEN <<>>
        ELSE LET k == Min({Head(iters[i]).key : i \in valid})
                 w == Min({i \in valid : Head(iters[i]).key = k})
                 adv == [i \in DOMAIN iters |->
                            IF i \in valid /\ Head(iters[i]).key = k
                            THEN Tail(iters[i]) ELSE iters[i]]
             IN  <<Head(iters[w])>> \o MergeIterator(adv)

\* TwoMergeIterator::create: on equal keys a wins and b is advanced.
RECURSIVE TwoMergeIterator(_, _)
TwoMergeIterator(a, b) ==
    IF a = <<>> THEN b
    ELSE IF b = <<>> THEN a
    ELSE IF Head(a).key < Head(b).key
         THEN <<Head(a)>> \o TwoMergeIterator(Tail(a), b)
    ELSE IF Head(a).key = Head(b).key
         THEN <<Head(a)>> \o TwoMergeIterator(Tail(a), Tail(b))
    ELSE <<Head(b)>> \o TwoMergeIterator(a, Tail(b))

\* ------------------------------------------------------------ block metas
\* BufMut::put_u32 of `n as u32`: the low 32 bits, big-endian.
put_u32(n) ==
    <<(n \div 16777216) % 256, (n \div 65536) % 256, (n \div 256) % 256, n % 256>>

\* put_u16 writing a single byte (put_u8).
put_u16OneByte(n) == <<n % 256>>

\* BufMut::put_u16 of `n as u16`: the low 16 bits, big-endian.
put_u16(n) == <<(n \div 256) % 256, n % 256>>

\* Buf::get_u32 and Buf::get_u16 on the first bytes of b.
get_u32(b) == b[1] * 16777216 + b[2] * 65536 + b[3] * 256 + b[4]

get_u16(b) == b[1] * 256 + b[2]

\* The bytes of b from position n + 1 on (Buf::advance).
Advance(b, n) == SubSeq(b, n + 1, Len(b))

BlockMeta(offset, first_key, last_key) ==
    [offset |-> offset, first_key |-> first_key, last_key |-> last_key]

\* BlockMeta::encode_block_metas: the bytes appended to buf.
RECURSIVE encode_block_metas(_)
encode_block_metas(block_meta) ==
    IF block_meta = <<>> THEN <<>>
    ELSE LET meta == Head(block_meta)
         IN  put_u32(meta.offset) \o put_u16(Len(meta.first_key))
                 \o meta.first_key \o put_u16(Len(meta.last_key))
                 \o meta.last_key \o encode_block_metas(Tail(block_meta))

\* A get_* or copy_to_bytes past the end of the buffer panics.
DecodePanic == [ok |-> FALSE, metas |-> <<>>]

\* BlockMeta::decode_block_metas: Ok(block_meta), or a panic.
RECURSIVE decode_block_metas(_)
decode_block_metas(buf) ==
    IF buf = <<>> THEN [ok |-> TRUE, metas |-> <<>>]
    ELSE IF Len(buf) < 4 THEN DecodePanic
    ELSE LET offset == get_u32(buf)
             b1 == Advance(buf, 4)
         IN  IF Len(b1) < 2 THEN DecodePanic
             ELSE LET first_key_len == get_u16(b1)
                      b2 == Advance(b1, 2)
                  IN  IF Len(b2) < first_key_len THEN DecodePanic
                      ELSE LET first_key == SubSeq(b2, 1, first_key_len)
                               b3 == Advance(b2, first_key_len)
                           IN  IF Len(b3) < 2 THEN DecodePanic
                               ELSE LET last_key_len == get_u16(b3)
                                        b4 == Advance(b3, 2)
                                    IN  IF Len(b4) < last_key_len THEN DecodePanic
                                        ELSE LET last_key == SubSeq(b4, 1, last_key_len)
                                                 rest == decode_block_metas(
                                                             Advance(b4, last_key_len))
                                             IN  IF ~rest.ok THEN DecodePanic
                                                 ELSE [ok |-> TRUE,
                                                       metas |-> <<BlockMeta(offset, first_key,
                                                                       last_key)>> \o rest.metas]

\* ------------------------------------------------------------ SST reader
\* Ord of KeySlice: byte strings compared lexicographically, a <= b.
RECURSIVE KeyLeq(_, _)
KeyLeq(a, b) ==
    IF a = <<>> THEN TRUE
    ELSE IF b = <<>> THEN FALSE
    ELSE IF Head(a) # Head(b) THEN Head(a) < Head(b)
    ELSE KeyLeq(Tail(a), Tail(b))

\* find_block_idx searching with `>` where the code has `<=`.
RECURSIVE partition_pointGreater(_, _, _, _)
partition_pointGreater(block_metas, key, lo, hi) ==
    IF lo >= hi THEN lo
    ELSE LET mid == lo + (hi - lo) \div 2
         IN  IF ~KeyLeq(block_metas[mid + 1].first_key, key)
             THEN partition_pointGreater(block_metas, key, mid + 1, hi)
             ELSE partition_pointGreater(block_metas, key, lo, mid)

\* slice::partition_point with the predicate `meta.first_key <= key`: a
\* binary search over the 0-based positions lo..hi-1 for the first meta
\* that fails the predicate.
RECURSIVE partition_point(_, _, _, _)
partition_point(block_metas, key, lo, hi) ==
    IF lo >= hi THEN lo
    ELSE LET mid == lo + (hi - lo) \div 2
         IN  IF KeyLeq(block_metas[mid + 1].first_key, key)
             THEN partition_point(block_metas, key, mid + 1, hi)
             ELSE partition_point(block_metas, key, lo, mid)

\* usize::saturating_sub
saturating_sub(a, b) == IF a >= b THEN a - b ELSE 0

\* SsTable::find_block_idx: a 0-based block index.
find_block_idx(block_metas, key) ==
    saturating_sub(partition_point(block_metas, key, 0, Len(block_metas)), 1)

\* The results of SsTable::open: a table, an error value, or a panic at
\* the named expression.
OpenOk(block_metas, block_meta_offset) ==
    [kind |-> "ok", at |-> "", block_metas |-> block_metas,
     block_meta_offset |-> block_meta_offset]

OpenErr(at) == [kind |-> "err", at |-> at, block_metas |-> <<>>,
                block_meta_offset |-> 0]

OpenPanic(at) == [kind |-> "panic", at |-> at, block_metas |-> <<>>,
                  block_meta_offset |-> 0]

\* FileObject::read on a file of the given bytes, for a range inside it.
read(file, offset, len) == SubSeq(file, offset + 1, offset + len)

\* SsTable::open on a file of the given bytes: the set of results the
\* builds of the crate can give.  `len - 4` and `len - metadat_offset - 4`
\* are u64 subtractions: with overflow checks they panic; without, the
\* first wraps to an offset read_exact_at rejects, and the second wraps
\* to a length above isize::MAX, on which `vec![0; len]` panics.
open(file) ==
    LET len == Len(file)
    IN  IF len < 4
        THEN {OpenPanic("len - 4"), OpenErr("read_exact_at")}
        ELSE LET metadat_offset == get_u32(read(file, len - 4, 4))
             IN  IF metadat_offset + 4 > len
                 THEN {OpenPanic("len - metadat_offset - 4")}
                 ELSE LET raw_metadata ==
                              read(file, metadat_offset, len - metadat_offset - 4)
                          block_metas == decode_block_metas(raw_metadata)
                      IN  IF ~block_metas.ok
                          THEN {OpenPanic("decode_block_metas")}
                          ELSE IF block_metas.metas = <<>>
                          THEN {OpenPanic("block_metas.first().unwrap()")}
                          ELSE {OpenOk(block_metas.metas, metadat_offset)}

\* ---------------------------------------------------------------- tasks
NoTask == [kind |-> "None"]

ForceFullCompaction(l0, l1) ==
    [kind |-> "ForceFullCompaction", l0_sstables |-> l0, l1_sstables |-> l1]

\* upper_level 0 stands for None (the upper level is L0).
SimpleLeveledCompactionTask(upper, upperIds, lower, lowerIds, bottom) ==
    [kind |-> "Simple", upper_level |-> upper, upper_level_sst_ids |-> upperIds,
     lower_level |-> lower, lower_level_sst_ids |-> lowerIds,
     is_lower_level_bottom_level |-> bottom]

\* CompactionTask::Leveled(LeveledCompactionTask), with the fields of the
\* simple-leveled task.
LeveledCompactionTask(upper, upperIds, lower, lowerIds, bottom) ==
    [kind |-> "Leveled", upper_level |-> upper, upper_level_sst_ids |-> upperIds,
     lower_level |-> lower, lower_level_sst_ids |-> lowerIds,
     is_lower_level_bottom_level |-> bottom]

\* CompactionTask::Tiered(TieredCompactionTask): the participating tiers,
\* newest first, each the list of its SST ids.
TieredCompactionTask(tiers, bottom) ==
    [kind |-> "Tiered", tiers |-> tiers, bottom_tier_included |-> bottom]

compact_to_bottom_level(t) ==
    IF t.kind = "ForceFullCompaction" THEN TRUE
    ELSE IF t.kind = "Tiered" THEN t.bottom_tier_included
    ELSE t.is_lower_level_bottom_level

\* The ids a task reads.
TaskInputs(t) ==
    IF t.kind = "ForceFullCompaction" THEN t.l0_sstables \o t.l1_sstables
    ELSE IF t.kind \in {"Simple", "Leveled"}
    THEN t.upper_level_sst_ids \o t.lower_level_sst_ids
    ELSE IF t.kind = "Tiered" THEN Flatten(t.tiers)
    ELSE <<>>

\* ------------------------------------------------- compaction executor
\* SsTableBuilder::estimated_size, counted in entries.
estimated_size(builder) == Len(builder)

\* FillBuilder without the check of lines 130-133: every entry is added.
RECURSIVE FillBuilderKeepsTombstones(_, _, _, _)
FillBuilderKeepsTombstones(it, builder, bottom, target) ==
    IF it = <<>> THEN [sst |-> builder, rest |-> <<>>]
    ELSE LET b == Append(builder, Head(it))
         IN  IF estimated_size(b) >= target
             THEN [sst |-> b, rest |-> Tail(it)]
             ELSE FillBuilderKeepsTombstones(Tail(it), b, bottom, target)

\* One builder's life inside the while loop of
\* compact_generate_sst_from_iter: entries are consumed until the builder
\* reaches target_sst_size (it is then built) or the stream ends (the
\* builder in progress is built after the loop).
RECURSIVE FillBuilder(_, _, _, _)
FillBuilder(it, builder, bottom, target) ==
    IF it = <<>> THEN [sst |-> builder, rest |-> <<>>]
    ELSE LET e == Head(it)
             b == IF bottom
                  THEN (IF e.value # Tomb THEN Append(builder, e) ELSE builder)
                  ELSE Append(builder, e)
         IN  IF estimated_size(b) >= target
             THEN [sst |-> b, rest |-> Tail(it)]
             ELSE FillBuilder(Tail(it), b, bottom, target)

\* compact_generate_sst_from_iter: the contents of new_ssts, in order.
RECURSIVE compact_generate_sst_from_iter(_, _, _)
compact_generate_sst_from_iter(it, bottom, target) ==
    IF it = <<>> THEN <<>>
    ELSE LET r == FillBuilder(it, <<>>, bottom, target)
         IN  <<r.sst>> \o compact_generate_sst_from_iter(r.rest, bottom, target)

\* CompactIter with the arguments of TwoMergeIterator::create swapped: on
\* equal keys the older side wins.
CompactIterOlderWins(t) ==
    IF t.kind = "ForceFullCompaction"
    THEN TwoMergeIterator(
             SstConcatIterator(t.l1_sstables),
             MergeIterator([i \in DOMAIN t.l0_sstables |->
                               SsTableIterator(t.l0_sstables[i])]))
    ELSE IF t.upper_level # 0
    THEN TwoMergeIterator(SstConcatIterator(t.lower_level_sst_ids),
                          SstConcatIterator(t.upper_level_sst_ids))
    ELSE TwoMergeIterator(
             SstConcatIterator(t.lower_level_sst_ids),
             MergeIterator([i \in DOMAIN t.upper_level_sst_ids |->
                               SsTableIterator(t.upper_level_sst_ids[i])]))

\* The merged iterator `compact` builds for a task over a snapshot.
CompactIter(t) ==
    IF t.kind = "ForceFullCompaction"
    THEN TwoMergeIterator(
             MergeIterator([i \in DOMAIN t.l0_sstables |->
                               SsTableIterator(t.l0_sstables[i])]),
             SstConcatIterator(t.l1_sstables))
    ELSE IF t.upper_level # 0
    THEN TwoMergeIterator(SstConcatIterator(t.upper_level_sst_ids),
                          SstConcatIterator(t.lower_level_sst_ids))
    ELSE TwoMergeIterator(
             MergeIterator([i \in DOMAIN t.upper_level_sst_ids |->
                               SsTableIterator(t.upper_level_sst_ids[i])]),
             SstConcatIterator(t.lower_level_sst_ids))

\* ------------------------------------------------- simple leveled strategy
\* SimpleLeveledCompactionController::generate_compaction_task
generate_compaction_task(snapshot) ==
    IF Len(snapshot.l0_sstables) >= Level0FileNumCompactionTrigger
    THEN SimpleLeveledCompactionTask(0, snapshot.l0_sstables, 1,
                                     snapshot.levels[1], MaxLevels = 1)
    ELSE LET hit == {i \in 1..(MaxLevels - 1) :
                        /\ Len(snapshot.levels[i]) > 0
                        /\ (Len(snapshot.levels[i + 1]) * 100)
                               \div Len(snapshot.levels[i]) < SizeRatioPercent}
         IN  IF hit = {} THEN NoTask
             ELSE LET i == Min(hit)
                  IN  SimpleLeveledCompactionTask(i, snapshot.levels[i], i + 1,
                          snapshot.levels[i + 1], i + 1 = MaxLevels)

\* SimpleLeveledCompactionController::apply_compaction_result:
\* <<new snapshot, ids to delete>>
apply_compaction_result(snapshot, t, output) ==
    LET upper == Range(t.upper_level_sst_ids)
        s1 == IF t.upper_level = 0
              THEN [snapshot EXCEPT
                       !.l0_sstables = Filter(@, Range(@) \ upper)]
              ELSE [snapshot EXCEPT
                       !.levels[t.upper_level] = Filter(@, Range(@) \ upper)]
        s2 == [s1 EXCEPT !.levels[t.lower_level] = output]
    IN  <<s2, t.upper_level_sst_ids \o t.lower_level_sst_ids>>


\* ------------------------------------------------------ leveled strategy
\* The smallest and the largest key of an SST overlap the keys lo..hi.
Overlaps(id, lo, hi) ==
    /\ sstData[id] # <<>>
    /\ sstData[id][1].key <= hi
    /\ sstData[id][Len(sstData[id])].key >= lo

\* LeveledCompactionController::generate_compaction_task, with less data
\* than base_level_size_mb: only the deepest level has a nonzero target,
\* so it is the base level and no level exceeds its target; the one
\* trigger left is the L0 file count, which picks all of L0 and the
\* SSTs of the base level that overlap the key range of L0.
leveled_generate_compaction_task(snapshot) ==
    IF Len(snapshot.l0_sstables) >= Level0FileNumCompactionTrigger
    THEN LET ks == UNION {KeysOf(sstData[id]) : id \in Range(snapshot.l0_sstables)}
             lo == Min(ks)
             hi == CHOOSE k \in ks : \A j \in ks : j <= k
             base == snapshot.levels[MaxLevels]
         IN  LeveledCompactionTask(0, snapshot.l0_sstables, MaxLevels,
                 IF ks = {} THEN <<>>
                 ELSE SelectSeq(base, LAMBDA id : Overlaps(id, lo, hi)),
                 TRUE)
    ELSE NoTask

\* ------------------------------------------------------- tiered strategy
\* TieredCompactionOptions::max_size_amplification_percent
MaxSizeAmplificationPercent == 100

\* TieredCompactionController::generate_compaction_task.  levels is the
\* list of tiers, newest first; a tier's size is the number of its SSTs.
\* Space amplification is the first trigger; with tiers of one SST or
\* more it fires whenever two tiers exist, before the other two triggers
\* (which need two tiers as well) are looked at.
tiered_generate_compaction_task(snapshot) ==
    LET n == Len(snapshot.levels)
    IN  IF n >= 2 /\ Len(snapshot.levels[n]) > 0
           /\ (Len(Flatten(SubSeq(snapshot.levels, 1, n - 1))) * 100)
                  \div Len(snapshot.levels[n]) >= MaxSizeAmplificationPercent
        THEN TieredCompactionTask(snapshot.levels, TRUE)
        ELSE NoTask

\* ----------------------------------------------------------- controller
\* The NoCompaction arm of generate_compaction_task: unreachable!().
Unreachable == [kind |-> "unreachable"]

\* CompactionController::generate_compaction_task
controller_generate_compaction_task(options, snapshot) ==
    CASE options = "Leveled" -> leveled_generate_compaction_task(snapshot)
      [] options = "Simple" -> generate_compaction_task(snapshot)
      [] options = "Tiered" -> tiered_generate_compaction_task(snapshot)
      [] options = "NoCompaction" -> Unreachable

\* CompactionController::flush_to_l0
flush_to_l0(options) == options \in {"Leveled", "Simple", "NoCompaction"}

\* SpawnsCompactionThread without the test of the options.
SpawnsCompactionThreadAlways(options) == TRUE

\* spawn_compaction_thread spawns a thread for these options only.
SpawnsCompactionThread(options) == options \in {"Leveled", "Simple", "Tiered"}

\* --------------------------------------------------------------- state
EmptyState ==
    [l0_sstables |-> <<>>, levels |-> [i \in 1..MaxLevels |-> <<>>],
     sstables |-> {}]

NoSnap == [none |-> TRUE]
NoCall == [fn |-> "none"]

\* Every id that L0 or a level lists.
Listed(s) ==
    Range(s.l0_sstables) \cup UNION {Range(s.levels[i]) : i \in DOMAIN s.levels}

\* The engine right after it is opened on an empty directory with the
\* given compaction options; with Tiered options there is no tier yet.
EngineInit(cap, options) ==
    /\ state = IF options = "Tiered" THEN [EmptyState EXCEPT !.levels = <<>>]
               ELSE EmptyState
    /\ sstData = <<>>
    /\ files = {}
    /\ next_sst_id = 1
    /\ id_cap = cap
    /\ state_lock = "none"
    /\ retired = {}
    /\ pc = [p \in Procs |-> "idle"]
    /\ task = [p \in Procs |-> NoTask]
    /\ iter = [p \in Procs |-> <<>>]
    /\ new_ssts = [p \in Procs |-> <<>>]
    /\ new_snapshot = [p \in Procs |-> EmptyState]
    /\ to_remove = [p \in Procs |-> <<>>]
    /\ committed = [p \in Procs |-> FALSE]
    /\ rsnap = NoSnap
    /\ rres = "none"
    /\ compaction_options = options
    /\ rx = [th \in Threads |-> FALSE]
    /\ returned = [th \in Threads |-> FALSE]

\* The same with the simple-leveled options.
SysInit(cap) == EngineInit(cap, "Simple")

Init == SysInit(MaxId) /\ call = NoCall

\* next_sst_id: the counter is read and incremented in one atomic step.
NextSstId ==
    /\ next_sst_id <= id_cap
    /\ next_sst_id' = next_sst_id + 1

\* SsTableBuilder::build under id next_sst_id: the file is written and
\* synced (FileObject::create) before the handle exists.
BuildSst(entries) ==
    /\ sstData' = Append(sstData, entries)
    /\ files' = files \cup {next_sst_id}

\* ------------------------------------------------------------- flush
\* A single-entry memtable for every key and value.
MemTables == {<<Entry(k, v)>> : k \in Keys, v \in Values}

\* trigger_flush and force_flush_next_imm_memtable: under the state mutex
\* the oldest immutable memtable, holding m, is written out as an SST under
\* the next id, which then enters l0_sstables at the front and sstables.
Flush(m) ==
    /\ state_lock = "none"
    /\ NextSstId
    /\ BuildSst(m)
    /\ state' = IF flush_to_l0(compaction_options)
                 THEN [state EXCEPT
                          !.l0_sstables = <<next_sst_id>> \o @,
                          !.sstables = @ \cup {next_sst_id}]
                 ELSE [state EXCEPT
                          !.levels = <<<<next_sst_id>>>> \o @,
                          !.sstables = @ \cup {next_sst_id}]
    /\ UNCHANGED <<id_cap, state_lock, retired, procVars, readVars, call, threadVars>>

\* ------------------------------------------------------------- compact
\* A call ends: its locals are dropped.
Reset(p, to) ==
    /\ pc' = [pc EXCEPT ![p] = to]
    /\ task' = [task EXCEPT ![p] = NoTask]
    /\ iter' = [iter EXCEPT ![p] = <<>>]
    /\ new_ssts' = [new_ssts EXCEPT ![p] = <<>>]
    /\ new_snapshot' = [new_snapshot EXCEPT ![p] = EmptyState]
    /\ to_remove' = [to_remove EXCEPT ![p] = <<>>]

\* compact, up to the merged iterator: the task's inputs are looked up in a
\* fresh snapshot (an id without a handle is an unwrap on None).
Compact(p) ==
    /\ pc[p] = "compact"
    /\ IF task[p].kind \notin {"ForceFullCompaction", "Simple"}
       THEN Reset(p, "panic")
       ELSE IF Range(TaskInputs(task[p])) \subseteq state.sstables
       THEN /\ iter' = [iter EXCEPT ![p] = CompactIter(task[p])]
            /\ pc' = [pc EXCEPT ![p] = IF iter'[p] = <<>> THEN "built" ELSE "build"]
            /\ UNCHANGED <<task, new_ssts, new_snapshot, to_remove>>
       ELSE Reset(p, "panic")
    /\ UNCHANGED <<sysVars, committed, readVars, call, threadVars>>

\* compact_generate_sst_from_iter, one output SST: the loop runs until a
\* builder is built, under the next id.
Build(p) ==
    /\ pc[p] = "build"
    /\ NextSstId
    /\ LET r == FillBuilder(iter[p], <<>>, compact_to_bottom_level(task[p]),
                            TargetSstSize)
       IN  /\ BuildSst(r.sst)
           /\ iter' = [iter EXCEPT ![p] = r.rest]
           /\ pc' = [pc EXCEPT ![p] = IF r.rest = <<>> THEN "built" ELSE "build"]
    /\ new_ssts' = [new_ssts EXCEPT ![p] = Append(@, next_sst_id)]
    /\ UNCHANGED <<state, id_cap, state_lock, retired, task, new_snapshot,
                   to_remove, committed, readVars, call, threadVars>>

\* The files of the displaced SSTs are removed one by one; removing a file
\* that is not there is an error, and the call returns it.
Unlink(p) ==
    /\ pc[p] = "unlink"
    /\ IF to_remove[p] = <<>>
       THEN /\ Reset(p, "idle")
            /\ UNCHANGED files
       ELSE IF Head(to_remove[p]) \in files
       THEN /\ files' = files \ {Head(to_remove[p])}
            /\ to_remove' = [to_remove EXCEPT ![p] = Tail(@)]
            /\ UNCHANGED <<pc, task, iter, new_ssts, new_snapshot>>
       ELSE /\ Reset(p, "failed")
            /\ UNCHANGED files
    /\ UNCHANGED <<state, sstData, next_sst_id, id_cap, state_lock, retired,
                   committed, readVars, call, threadVars>>

\* An I/O operation fails (reading an input block, writing an output file,
\* removing a file): the `?` returns the error to the caller.
IoError(p) ==
    /\ pc[p] \in {"compact", "build", "unlink"}
    /\ pc[p] = "unlink" => to_remove[p] # <<>>
    /\ Reset(p, "failed")
    /\ UNCHANGED <<sysVars, committed, readVars, call, threadVars>>

\* ------------------------------------------------ force_full_compaction
\* The snapshot and the task: all of L0 and all of L1.
FFSnapshot ==
    /\ pc["ff"] \in {"idle", "failed"}
    /\ task' = [task EXCEPT !["ff"] =
                   ForceFullCompaction(state.l0_sstables, state.levels[1])]
    /\ pc' = [pc EXCEPT !["ff"] = "compact"]
    /\ committed' = [committed EXCEPT !["ff"] = FALSE]
    /\ UNCHANGED <<sysVars, iter, new_ssts, new_snapshot, to_remove,
                   readVars, call, threadVars>>

\* FFNewState with the outputs added to L1 instead of replacing it.
FFNewStateExtendsL1(st, t, ids) ==
    [st EXCEPT
        !.sstables = (@ \ Range(TaskInputs(t))) \cup Range(ids),
        !.l0_sstables = Filter(@, Range(@) \ Range(t.l0_sstables)),
        !.levels[1] = @ \o ids]

\* The state force_full_compaction computes from the state st it read.
FFNewState(st, t, ids) ==
    [st EXCEPT
        !.sstables = (@ \ Range(TaskInputs(t))) \cup Range(ids),
        !.l0_sstables = Filter(@, Range(@) \ Range(t.l0_sstables)),
        !.levels[1] = ids]

\* The state mutex is taken, the current state read and the new one
\* computed; the assertion that every L0 input was still listed may fail.
FFLockRead ==
    /\ pc["ff"] = "built"
    /\ state_lock = "none"
    /\ IF Range(task["ff"].l0_sstables) \subseteq Range(state.l0_sstables)
       THEN /\ new_snapshot' = [new_snapshot EXCEPT !["ff"] =
                                   FFNewState(state, task["ff"], new_ssts["ff"])]
            /\ pc' = [pc EXCEPT !["ff"] = "publish"]
            /\ state_lock' = "ff"
            /\ UNCHANGED <<task, iter, new_ssts, to_remove>>
       ELSE /\ Reset("ff", "panic")
            /\ UNCHANGED state_lock
    /\ UNCHANGED <<state, sstData, files, next_sst_id, id_cap, retired,
                   committed, readVars, call, threadVars>>

\* The new state is published and the mutex released.
FFPublish ==
    /\ pc["ff"] = "publish"
    /\ state' = new_snapshot["ff"]
    /\ retired' = retired \cup (state.sstables \ state'.sstables)
    /\ state_lock' = "none"
    /\ committed' = [committed EXCEPT !["ff"] = TRUE]
    /\ to_remove' = [to_remove EXCEPT !["ff"] = TaskInputs(task["ff"])]
    /\ pc' = [pc EXCEPT !["ff"] = "unlink"]
    /\ UNCHANGED <<sstData, files, next_sst_id, id_cap, task, iter, new_ssts,
                   new_snapshot, readVars, call, threadVars>>

\* --------------------------------------------------- trigger_compaction
\* The snapshot and the strategy's task, if it generates one.
TCGenerate ==
    /\ pc["tc"] \in {"idle", "failed"}
    /\ LET t == controller_generate_compaction_task(compaction_options, state)
       IN  /\ t # NoTask
           /\ IF t = Unreachable
              THEN Reset("tc", "panic")
              ELSE /\ task' = [task EXCEPT !["tc"] = t]
                   /\ pc' = [pc EXCEPT !["tc"] = "compact"]
                   /\ UNCHANGED <<iter, new_ssts, new_snapshot, to_remove>>
    /\ committed' = [committed EXCEPT !["tc"] = FALSE]
    /\ UNCHANGED <<sysVars, readVars, call, threadVars>>

\* The state trigger_compaction computes from the state st it read:
\* <<new snapshot, ids to delete>>.
TCNewState(st, t, output) ==
    LET snapshot == [st EXCEPT !.sstables = @ \cup Range(output)]
        res == apply_compaction_result(snapshot, t, output)
    IN  <<[res[1] EXCEPT !.sstables = @ \ Range(res[2])], res[2]>>

\* The current state is read, the outputs inserted, the strategy's result
\* applied and the displaced handles removed; a displaced id without a
\* handle fails the assertion.
TCApply ==
    /\ pc["tc"] = "built"
    /\ LET res == TCNewState(state, task["tc"], new_ssts["tc"])
       IN  IF Range(res[2]) \subseteq state.sstables
           THEN /\ new_snapshot' = [new_snapshot EXCEPT !["tc"] = res[1]]
                /\ to_remove' = [to_remove EXCEPT !["tc"] = res[2]]
                /\ pc' = [pc EXCEPT !["tc"] = "publish"]
                /\ UNCHANGED <<task, iter, new_ssts>>
           ELSE Reset("tc", "panic")
    /\ UNCHANGED <<sysVars, committed, readVars, call, threadVars>>

\* The new state is published.
TCPublish ==
    /\ pc["tc"] = "publish"
    /\ state' = new_snapshot["tc"]
    /\ retired' = retired \cup (state.sstables \ state'.sstables)
    /\ committed' = [committed EXCEPT !["tc"] = TRUE]
    /\ pc' = [pc EXCEPT !["tc"] = "unlink"]
    /\ UNCHANGED <<sstData, files, next_sst_id, id_cap, state_lock, task, iter,
                   new_ssts, new_snapshot, to_remove, readVars, call, threadVars>>

\* -------------------------------------------------------------- reader
\* A reader takes the read lock, clones the state pointer and drops the
\* lock: from then on it works on that snapshot.
ReaderClone ==
    /\ rsnap = NoSnap
    /\ rsnap' = state
    /\ rres' = "none"
    /\ UNCHANGED <<sysVars, procVars, call, threadVars>>

\* The read is served from the snapshot: every SST the snapshot lists is
\* looked up in its sstables map, and the blocks are read through the
\* SsTable handle found there (FileObject::read on the open file, which a
\* later unlink of the path does not close).  A listed id without a handle
\* fails the read.
ReaderGet ==
    /\ rsnap # NoSnap
    /\ rres' = IF Listed(rsnap) \subseteq rsnap.sstables THEN "ok" ELSE "failed"
    /\ rsnap' = NoSnap
    /\ UNCHANGED <<sysVars, procVars, call, threadVars>>

\* --------------------------------------------------- background threads
\* A thread exists: the flush thread always, the compaction thread when
\* spawn_compaction_thread spawned it.
Spawned(th) == th = "flush" \/ SpawnsCompactionThread(compaction_options)

\* The thread is in its select!, not inside trigger_compaction (a flush
\* is one step).
BetweenIterations(th) == th = "compaction" => pc["tc"] \in {"idle", "failed"}

\* The thread has neither returned nor been unwound by a panic.
Running(th) ==
    /\ Spawned(th)
    /\ ~returned[th]
    /\ th = "compaction" => pc["tc"] # "panic"

\* The shutdown signal: both channels become readable.
Shutdown ==
    /\ \E th \in Threads : ~rx[th]
    /\ rx' = [th \in Threads |-> TRUE]
    /\ UNCHANGED <<sysVars, procVars, readVars, call, compaction_options, returned>>

\* select! takes the recv(rx) arm: the closure returns.
Return(th) ==
    /\ Running(th)
    /\ BetweenIterations(th)
    /\ rx[th]
    /\ returned' = [returned EXCEPT ![th] = TRUE]
    /\ UNCHANGED <<sysVars, procVars, readVars, call, compaction_options, rx>>

\* select! takes the recv(ticker) arm of the compaction thread:
\* trigger_compaction starts (a call that finds no task changes nothing).
CompactionTick ==
    /\ Running("compaction")
    /\ TCGenerate

\* select! takes the recv(ticker) arm of the flush thread and trigger_flush
\* finds enough immutable memtables.
FlushTick ==
    /\ Running("flush")
    /\ \E m \in MemTables : Flush(m)

\* The ids of the model are used up while an output is to be built: the
\* build ends as a failed write does, and the call returns the error.
OutOfIds(p) ==
    /\ pc[p] = "build"
    /\ next_sst_id > id_cap
    /\ Reset(p, "failed")
    /\ UNCHANGED <<sysVars, committed, readVars, call, threadVars>>

\* -------------------------------------------------------- specification
Next ==
    \/ \E m \in MemTables : Flush(m)
    \/ FFSnapshot
    \/ FFLockRead
    \/ FFPublish
    \/ TCGenerate
    \/ TCApply
    \/ TCPublish
    \/ \E p \in Procs : Compact(p)
    \/ \E p \in Procs : Build(p)
    \/ \E p \in Procs : Unlink(p)

\* Flushes, force_full_compaction calls and the background compaction
\* thread, interleaved step by step.
Spec == Init /\ [][Next]_vars

\* The same with I/O operations that may fail.
NextIo ==
    \/ Next
    \/ \E p \in Procs : IoError(p)

SpecIo == Init /\ [][NextIo]_vars

\* The engine with a reader beside the flushes and the two compactions;
\* ids stop one earlier than in Spec.
NextRead ==
    \/ Next
    \/ ReaderClone
    \/ ReaderGet

InitRead == SysInit(MaxId - 1) /\ call = NoCall

SpecRead == InitRead /\ [][NextRead]_vars

\* One operation at a time: an operation starts only when no compaction
\* call is under way.  Every behaviour of it is a behaviour of the engine
\* under a scheduler that happens not to overlap the calls; ids may run one
\* further than in Spec.
Quiet == \A p \in Procs : pc[p] \in {"idle", "failed", "panic"}

InitSerial == SysInit(MaxId + 1) /\ call = NoCall

NextSerial ==
    \/ Quiet /\ \E m \in MemTables : Flush(m)
    \/ Quiet /\ FFSnapshot
    \/ Quiet /\ TCGenerate
    \/ FFLockRead
    \/ FFPublish
    \/ TCApply
    \/ TCPublish
    \/ \E p \in Procs : Compact(p)
    \/ \E p \in Procs : Build(p)
    \/ \E p \in Procs : Unlink(p)

SpecSerial == InitSerial /\ [][NextSerial]_vars

\* The two background threads under every compaction option, and the
\* shutdown signal.  select! picks at random among the ready arms, so the
\* recv(rx) arm is taken at some point if it is ready again and again;
\* a call that has started goes on step by step.
InitThreads == \E o \in Options : EngineInit(MaxId, o) /\ call = NoCall

NextThreads ==
    \/ FlushTick
    \/ CompactionTick
    \/ Compact("tc")
    \/ Build("tc")
    \/ OutOfIds("tc")
    \/ TCApply
    \/ TCPublish
    \/ Unlink("tc")
    \/ Shutdown
    \/ \E th \in Threads : Return(th)

FairThreads ==
    /\ WF_vars(Compact("tc"))
    /\ WF_vars(Build("tc"))
    /\ WF_vars(OutOfIds("tc"))
    /\ WF_vars(TCApply)
    /\ WF_vars(TCPublish)
    /\ WF_vars(Unlink("tc"))
    /\ \A th \in Threads : SF_vars(Return(th))

SpecThreads == InitThreads /\ [][NextThreads]_vars /\ FairThreads

\* encode_block_metas followed by decode_block_metas on any sequence of at
\* most MaxMetas metas whose keys are the byte strings 1, 2, .., n for n up
\* to MaxKeyLen and whose offsets take one, two and four bytes.
MetaKeys == {[i \in 1..n |-> i] : n \in 0..MaxKeyLen}

MetaOffsets == {0, 258, 16909060}

BlockMetas ==
    {BlockMeta(o, f, l) : o \in MetaOffsets, f \in MetaKeys, l \in MetaKeys}

MetaSeqs == UNION {[1..n -> BlockMetas] : n \in 0..MaxMetas}

InitMeta ==
    /\ SysInit(MaxId)
    /\ call \in {[fn |-> "block_metas", metas |-> ms, buf |-> <<>>,
                   out |-> DecodePanic, step |-> "encode"] : ms \in MetaSeqs}

MetaEncode ==
    /\ call.fn = "block_metas"
    /\ call.step = "encode"
    /\ call' = [call EXCEPT !.buf = encode_block_metas(call.metas),
                            !.step = "decode"]
    /\ UNCHANGED <<sysVars, procVars, readVars, threadVars>>

MetaDecode ==
    /\ call.fn = "block_metas"
    /\ call.step = "decode"
    /\ call' = [call EXCEPT !.out = decode_block_metas(call.buf),
                            !.step = "done"]
    /\ UNCHANGED <<sysVars, procVars, readVars, threadVars>>

NextMeta ==
    \/ MetaEncode
    \/ MetaDecode

SpecMeta == InitMeta /\ [][NextMeta]_vars

\* find_block_idx on any key and any list of up to MaxBlocks metas sorted
\* by first_key; keys are the byte strings over 1 and 2 of length up to
\* MaxKeyLen.
AllKeys == UNION {[1..n -> {1, 2}] : n \in 0..MaxKeyLen}

SortedMetas ==
    UNION {{[i \in 1..n |-> BlockMeta(0, fk[i], fk[i])] :
               fk \in {f \in [1..n -> AllKeys] :
                          \A i \in 1..(n - 1) : KeyLeq(f[i], f[i + 1])}} :
           n \in 0..MaxBlocks}

InitFind ==
    /\ SysInit(MaxId)
    /\ call \in {[fn |-> "find_block_idx", block_metas |-> ms, key |-> k,
                   out |-> 0, done |-> FALSE] : ms \in SortedMetas, k \in AllKeys}

FindRun ==
    /\ call.fn = "find_block_idx"
    /\ ~call.done
    /\ call' = [call EXCEPT !.out = find_block_idx(call.block_metas, call.key),
                            !.done = TRUE]
    /\ UNCHANGED <<sysVars, procVars, readVars, threadVars>>

SpecFind == InitFind /\ [][FindRun]_vars

\* SsTable::open on the files an SST build writes (data bytes, the encoded
\* metas, the 4-byte meta offset), on those files with any other small
\* meta offset in the trailer, and on every prefix of each of them.
OpenMetas ==
    UNION {[1..n -> {BlockMeta(0, k, k) : k \in MetaKeys}] : n \in 0..MaxMetas}

OpenFiles ==
    UNION {LET body == [i \in 1..d |-> 0] \o encode_block_metas(ms)
           IN  {SubSeq(body \o put_u32(off), 1, n) :
                   off \in 0..(Len(body) + 1), n \in 0..(Len(body) + 4)} :
           ms \in OpenMetas, d \in 0..1}

InitOpen ==
    /\ SysInit(MaxId)
    /\ call \in {[fn |-> "open", file |-> f, out |-> OpenErr(""),
                   done |-> FALSE] : f \in OpenFiles}

OpenRun ==
    /\ call.fn = "open"
    /\ ~call.done
    /\ \E r \in open(call.file) :
           call' = [call EXCEPT !.out = r, !.done = TRUE]
    /\ UNCHANGED <<sysVars, procVars, readVars, threadVars>>

SpecOpen == InitOpen /\ [][OpenRun]_vars

\* compact_generate_sst_from_iter on its own: any merged stream of at most
\* MaxStreamLen entries, any task, any target_sst_size up to MaxTarget.
GenTasks ==
    {ForceFullCompaction(<<>>, <<>>)} \cup
    {SimpleLeveledCompactionTask(0, <<>>, 1, <<>>, b) : b \in BOOLEAN}

InitGen ==
    /\ SysInit(MaxId)
    /\ call \in {[fn |-> "compact_generate_sst_from_iter", task |-> t,
                   it |-> it, target |-> n, out |-> <<>>, done |-> FALSE] :
                     t \in GenTasks, it \in Runs(MaxStreamLen),
                     n \in 1..MaxTarget}

GenRun ==
    /\ call.fn = "compact_generate_sst_from_iter"
    /\ ~call.done
    /\ call' = [call EXCEPT
                   !.out = compact_generate_sst_from_iter(
                               call.it, compact_to_bottom_level(call.task),
                               call.target),
                   !.done = TRUE]
    /\ UNCHANGED <<sysVars, procVars, readVars, threadVars>>

SpecGen == InitGen /\ [][GenRun]_vars

\* compact_generate_sst_from_iter one loop iteration at a time.  `builder`
\* is the Option of the code: <<>> is None and <<b>> is Some(b).
InitLoop ==
    /\ SysInit(MaxId)
    /\ call \in {[fn |-> "while iter.is_valid()", task |-> t, it |-> it,
                   iter |-> it, target |-> n, builder |-> <<>>,
                   new_ssts |-> <<>>, done |-> FALSE] :
                     t \in GenTasks, it \in Runs(MaxStreamLen),
                     n \in 1..MaxTarget}

\* WhileIterValid finalizing only above target_sst_size (`>` for `>=`).
WhileIterValidAboveTarget ==
    /\ call.fn = "while iter.is_valid()"
    /\ ~call.done
    /\ call.iter # <<>>
    /\ LET e == Head(call.iter)
           builder == IF call.builder = <<>> THEN <<>> ELSE call.builder[1]
           builder_inner ==
               IF compact_to_bottom_level(call.task)
               THEN (IF e.value # Tomb THEN Append(builder, e) ELSE builder)
               ELSE Append(builder, e)
       IN  call' = IF estimated_size(builder_inner) > call.target
                   THEN [call EXCEPT !.iter = Tail(call.iter),
                                     !.builder = <<>>,
                                     !.new_ssts = Append(@, builder_inner)]
                   ELSE [call EXCEPT !.iter = Tail(call.iter),
                                     !.builder = <<builder_inner>>]
    /\ UNCHANGED <<sysVars, procVars, readVars, threadVars>>

\* One iteration of the while loop: a builder is made if there is none,
\* the entry is added unless it is a tombstone going to the bottom level,
\* the iterator advances, and a builder that has reached target_sst_size
\* is taken and built.
WhileIterValid ==
    /\ call.fn = "while iter.is_valid()"
    /\ ~call.done
    /\ call.iter # <<>>
    /\ LET e == Head(call.iter)
           builder == IF call.builder = <<>> THEN <<>> ELSE call.builder[1]
           builder_inner ==
               IF compact_to_bottom_level(call.task)
               THEN (IF e.value # Tomb THEN Append(builder, e) ELSE builder)
               ELSE Append(builder, e)
       IN  call' = IF estimated_size(builder_inner) >= call.target
                   THEN [call EXCEPT !.iter = Tail(call.iter),
                                     !.builder = <<>>,
                                     !.new_ssts = Append(@, builder_inner)]
                   ELSE [call EXCEPT !.iter = Tail(call.iter),
                                     !.builder = <<builder_inner>>]
    /\ UNCHANGED <<sysVars, procVars, readVars, threadVars>>

\* After the loop: the builder in progress, if any, is built and pushed,
\* and new_ssts is returned.
PutLastSst ==
    /\ call.fn = "while iter.is_valid()"
    /\ ~call.done
    /\ call.iter = <<>>
    /\ call' = IF call.builder # <<>>
               THEN [call EXCEPT !.builder = <<>>,
                                 !.new_ssts = Append(@, call.builder[1]),
                                 !.done = TRUE]
               ELSE [call EXCEPT !.done = TRUE]
    /\ UNCHANGED <<sysVars, procVars, readVars, threadVars>>

NextLoop ==
    \/ WhileIterValid
    \/ PutLastSst

SpecLoop == InitLoop /\ [][NextLoop]_vars

\* ------------------------------------------------------------ C1
\* get on a snapshot: L0 newest first, then L1, L2, ...; the first SST
\* holding the key decides, and an empty value means the key is absent.
ValueIn(entries, k) ==
    LET i == CHOOSE j \in DOMAIN entries : entries[j].key = k
    IN  entries[i].value

Get(s, k) ==
    LET ids == s.l0_sstables \o Flatten(s.levels)
        hits == {i \in DOMAIN ids : k \in KeysOf(sstData[ids[i]])}
    IN  IF hits = {} THEN Tomb ELSE ValueIn(sstData[ids[Min(hits)]], k)

\* The step in which p publishes its new state.
Publishes(p) == pc[p] = "publish" /\ pc'[p] = "unlink"

\* C1: a compaction commit leaves get unchanged for every key.
C1_GetUnchangedAcrossCommit ==
    [][\A p \in Procs :
          Publishes(p) => \A k \in Keys : Get(state', k) = Get(state, k)]_vars

\* ------------------------------------------------------------ C2
\* The L0 SSTs of the current state that are not inputs of p's task.
FlushedDuring(p) == Range(state.l0_sstables) \ Range(TaskInputs(task[p]))

\* C2: an SST that a flush added to l0_sstables and sstables while a
\* compaction was running (an L0 SST of the current state that is not an
\* input of the compaction) is still listed in l0_sstables and present in
\* sstables right after the compaction publishes.
C2_FlushSurvivesPublish ==
    [][\A p \in Procs :
          Publishes(p) =>
              /\ FlushedDuring(p) \subseteq Range(state'.l0_sstables)
              /\ FlushedDuring(p) \subseteq state'.sstables]_vars

\* ------------------------------------------------------------ C3
\* C3: a caller that has read the current state and not yet published (it
\* is at "publish") holds the state mutex, so two callers are never there
\* together.
C3_CommitUnderStateLock ==
    /\ \A p \in Procs : pc[p] = "publish" => state_lock = p
    /\ ~(pc["ff"] = "publish" /\ pc["tc"] = "publish")

\* ------------------------------------------------------------ C4
\* No entry of the SST has an empty value.
NoTombstone(entries) == \A i \in DOMAIN entries : entries[i].value # Tomb

\* C4: when the task compacts to the bottom level, no output SST of
\* compact_generate_sst_from_iter holds an entry with an empty value.
C4_NoTombstoneAtBottom ==
    (call # NoCall /\ call.done /\ compact_to_bottom_level(call.task)) =>
        \A i \in DOMAIN call.out : NoTombstone(call.out[i])

\* A ForceFullCompaction stream with a tombstone in it has been compacted
\* into at least one SST.
C4_Witness ==
    /\ call # NoCall
    /\ call.done
    /\ call.task.kind = "ForceFullCompaction"
    /\ ~NoTombstone(call.it)
    /\ \E i \in DOMAIN call.out : call.out[i] # <<>>

\* ------------------------------------------------------------ C5
\* C5: in every published state the ids listed in l0_sstables and the
\* levels are exactly the ids that have a handle in sstables.
C5_ListedIsSstables == Listed(state) = state.sstables

\* ------------------------------------------------------------ C6
\* The SSTs listed in ids hold strictly increasing keys, each on its own
\* and from one to the next.
KeyOrdered(ids) ==
    /\ \A i \in DOMAIN ids : IsSorted(sstData[ids[i]])
    /\ \A i, j \in DOMAIN ids :
          i < j => \A a \in KeysOf(sstData[ids[i]]), b \in KeysOf(sstData[ids[j]]) :
                      a < b

\* C6: every level of the published state lists its SSTs in ascending key
\* order with pairwise disjoint key ranges, and so does the list of
\* outputs of every compaction.
C6_LevelsKeyOrdered ==
    /\ \A i \in 1..MaxLevels : KeyOrdered(state.levels[i])
    /\ \A p \in Procs : KeyOrdered(new_ssts[p])

\* force_full_compaction has installed two or more output SSTs as L1.
C6_Witness ==
    /\ pc["ff"] = "unlink"
    /\ state.levels[1] = new_ssts["ff"]
    /\ Len(state.levels[1]) >= 2
    /\ \A i \in DOMAIN state.levels[1] : sstData[state.levels[1][i]] # <<>>

\* ------------------------------------------------------------ C7
NoDuplicates(s) == \A i, j \in DOMAIN s : i # j => s[i] # s[j]

\* C7: the ids of the outputs a compaction has built and not yet committed
\* are pairwise distinct, differ from the other caller's outputs and from
\* every id that is or was in sstables; and no retired id is live.
C7_IdsNeverReused ==
    /\ \A p \in Procs :
          /\ NoDuplicates(new_ssts[p])
          /\ ~committed[p] =>
                 Range(new_ssts[p]) \cap (state.sstables \cup retired) = {}
    /\ Range(new_ssts["ff"]) \cap Range(new_ssts["tc"]) = {}
    /\ retired \cap state.sstables = {}

\* ------------------------------------------------------------ C8
\* The ids a snapshot refers to, by a listing or by a handle.
IdsOf(s) == Listed(s) \cup s.sstables

\* The compaction call of p has a task and has not returned.
Compacting(p) == pc[p] \in {"compact", "build", "built", "publish", "unlink"}

\* s is the state before the commit of p: every input, no output.
PreCommit(s, p) ==
    /\ Range(TaskInputs(task[p])) \subseteq s.sstables \cap Listed(s)
    /\ Range(new_ssts[p]) \cap IdsOf(s) = {}

\* s is the state after the commit of p: every output, no input.
PostCommit(s, p) ==
    /\ Range(new_ssts[p]) \subseteq s.sstables \cap Listed(s)
    /\ Range(TaskInputs(task[p])) \cap IdsOf(s) = {}

\* C8: the snapshot a reader clones while a compaction is under way is
\* that compaction's pre-commit state (all of its inputs, none of its
\* outputs) or its post-commit state (all of its outputs, none of its
\* inputs), and no read served from a snapshot fails.
C8_ReaderSeesPreOrPostCommit ==
    [][/\ (rsnap = NoSnap /\ rsnap' # NoSnap) =>
              \A p \in Procs :
                  Compacting(p) => PreCommit(rsnap', p) \/ PostCommit(rsnap', p)
       /\ rres' # "failed"]_vars

\* ------------------------------------------------------------ C9
\* The ids under which an SST file has been written.
Written == 1..Len(sstData)

\* C9: every SST the published state references has been written, and a
\* file is removed only when the published state does not reference it.
C9_WriteThenPublishThenUnlink ==
    /\ [](state.sstables \cup Listed(state) \subseteq Written)
    /\ [][\A id \in files \ files' :
              id \notin state.sstables \cup Listed(state)]_vars

\* ------------------------------------------------------------ C10
\* C10: a call that returned an error has not published a state.
C10_ErrorMeansNoCommit ==
    \A p \in Procs : pc[p] = "failed" => ~committed[p]

\* ------------------------------------------------------------ C18
\* C18: no caller that has built its outputs fails a commit-time
\* assertion: the L0 inputs of a force-full task are still in l0_sstables
\* and every id trigger_compaction deletes still has a handle in sstables.
C18_CommitAssertionsHold ==
    [][\A p \in Procs : pc[p] = "built" => pc'[p] # "panic"]_vars

\* ------------------------------------------------------------ C19
\* The level a task's outputs are installed in: L1 for a force-full task,
\* lower_level for a simple-leveled one.
OutputLevel(t) == IF t.kind = "ForceFullCompaction" THEN 1 ELSE t.lower_level

\* C19: when a compaction whose task elides tombstones publishes, the
\* state it replaces holds no SST in any level deeper than the task's
\* output level.
C19_ElidesOnlyAtDeepestLevel ==
    [][\A p \in Procs :
          (Publishes(p) /\ compact_to_bottom_level(task[p])) =>
              \A i \in 1..MaxLevels :
                  i > OutputLevel(task[p]) => state.levels[i] = <<>>]_vars

\* ------------------------------------------------------------ C20
\* C20: every SST compact_generate_sst_from_iter returns holds at least
\* one entry.
C20_NoEmptySst ==
    (call # NoCall /\ call.done) =>
        \A i \in DOMAIN call.out : call.out[i] # <<>>

\* ------------------------------------------------------------ C12
\* The positions in ids of the SSTs that hold key k.
Holders(ids, k) == {i \in DOMAIN ids : k \in KeysOf(sstData[ids[i]])}

\* What a full compaction of the task's inputs must leave: for every key
\* of the inputs, in ascending order, the value of the first SST holding
\* it in the order L0 (newest first), then L1, unless that value is empty.
ExpectedFull(t) ==
    LET ids == t.l0_sstables \o t.l1_sstables
        newest == [k \in Keys |->
                      IF Holders(ids, k) = {} THEN -1
                      ELSE ValueIn(sstData[ids[Min(Holders(ids, k))]], k)]
    IN  RunOf([k \in Keys |-> IF newest[k] = Tomb THEN -1 ELSE newest[k]], 1)

\* C12: the state force_full_compaction computes under the lock has as L1
\* its output SSTs, whose concatenated contents are ExpectedFull of its
\* task, and as L0 the L0 it read without the task's L0 inputs, the others
\* kept in order; and that state is the one it publishes.
C12_ForceFullResult ==
    [][/\ (pc["ff"] = "built" /\ pc'["ff"] = "publish") =>
              /\ new_snapshot'["ff"].levels[1] = new_ssts["ff"]
              /\ SstConcatIterator(new_ssts["ff"]) = ExpectedFull(task["ff"])
              /\ new_snapshot'["ff"].l0_sstables =
                     SelectSeq(state.l0_sstables,
                               LAMBDA id : id \notin Range(task["ff"].l0_sstables))
       /\ Publishes("ff") => state' = new_snapshot["ff"]]_vars

\* force_full_compaction has committed a task in which some key has an
\* older, masked value, some key's newest value is a tombstone, and
\* something is left to write.
C12_Witness ==
    /\ pc["ff"] = "unlink"
    /\ state.levels[1] = new_ssts["ff"]
    /\ ExpectedFull(task["ff"]) # <<>>
    /\ LET ids == task["ff"].l0_sstables \o task["ff"].l1_sstables
       IN  /\ \E k \in Keys : Cardinality(Holders(ids, k)) >= 2
           /\ \E k \in Keys :
                 /\ Holders(ids, k) # {}
                 /\ ValueIn(sstData[ids[Min(Holders(ids, k))]], k) = Tomb

\* ------------------------------------------------------------ C11
\* C11: once its shutdown channel is readable a background thread
\* eventually returns, and a thread stops running only between two loop
\* iterations, never inside a compaction that has started.
C11_ShutdownBetweenIterations ==
    /\ \A th \in Threads : (Spawned(th) /\ rx[th]) ~> returned[th]
    /\ [][\A th \in Threads :
              (Running(th) /\ ~Running(th)') => BetweenIterations(th)]_vars

\* ------------------------------------------------------------ C13
\* C13: with Leveled or Tiered options the compaction thread never
\* aborts: compact handles the task the strategy generated.
C13_EveryVariantHandled ==
    compaction_options \in {"Leveled", "Tiered"} => pc["tc"] # "panic"

\* ------------------------------------------------------------ C14
\* C14: with NoCompaction no compaction thread runs (none ever returns,
\* generates a task or aborts in the unreachable arm of task generation),
\* flushes go to L0, and flush_to_l0 is false for the Tiered options only.
C14_NoCompactionNeverGenerates ==
    /\ \A o \in Options : flush_to_l0(o) <=> o # "Tiered"
    /\ compaction_options = "NoCompaction" =>
          /\ ~returned["compaction"]
          /\ pc["tc"] = "idle"
          /\ task["tc"] = NoTask
          /\ state.sstables = Range(state.l0_sstables)
          /\ \A i \in DOMAIN state.levels : state.levels[i] = <<>>

\* With NoCompaction, enough SSTs were flushed to L0 for a strategy to
\* compact them, and the shutdown signal has been given.
C14_Witness ==
    /\ compaction_options = "NoCompaction"
    /\ Len(state.l0_sstables) >= 2
    /\ rx["compaction"]

\* ------------------------------------------------------------ C15
\* C15: decoding the encoding of a meta sequence gives the sequence back.
C15_DecodeEncodeRoundTrip ==
    (call # NoCall /\ call.fn = "block_metas" /\ call.step = "done") =>
        /\ call.out.ok
        /\ call.out.metas = call.metas

\* Two metas, the first with an empty first key and a longer last key,
\* have gone through encode and decode.
C15_Witness ==
    /\ call # NoCall
    /\ call.fn = "block_metas"
    /\ call.step = "done"
    /\ Len(call.metas) = 2
    /\ call.metas[1].first_key = <<>>
    /\ Len(call.metas[1].last_key) = MaxKeyLen
    /\ call.metas[2].offset > 65535

\* ------------------------------------------------------------ C16
\* The 1-based positions of the metas whose first_key is at most key.
AtMost(block_metas, key) ==
    {i \in DOMAIN block_metas : KeyLeq(block_metas[i].first_key, key)}

\* C16: on metas sorted by first_key, find_block_idx returns the largest
\* (0-based) index whose first_key is at most the key, and 0 when there
\* is none.
C16_FindBlockIdx ==
    (call # NoCall /\ call.fn = "find_block_idx" /\ call.done) =>
        LET hits == AtMost(call.block_metas, call.key)
        IN  IF hits = {} THEN call.out = 0
            ELSE \A i \in hits : i - 1 <= call.out /\ call.out + 1 \in hits

\* The search has run on MaxBlocks metas, of which some but not all have
\* a first_key at most the key, and returned an index that is not 0.
C16_Witness ==
    /\ call # NoCall
    /\ call.fn = "find_block_idx"
    /\ call.done
    /\ Len(call.block_metas) = MaxBlocks
    /\ AtMost(call.block_metas, call.key) \notin {{}, DOMAIN call.block_metas}
    /\ call.out > 0

\* ------------------------------------------------------------ C17
\* What is wrong with a file, if anything: it is shorter than the trailer,
\* its trailer names an offset outside it, its meta region ends inside a
\* meta, or its meta region holds no meta.
Malformed(file) ==
    LET len == Len(file)
    IN  IF len < 4 THEN "truncated trailer"
        ELSE LET off == get_u32(SubSeq(file, len - 3, len))
             IN  IF off + 4 > len THEN "meta_offset out of range"
                 ELSE LET d == decode_block_metas(SubSeq(file, off + 1, len - 4))
                      IN  IF ~d.ok THEN "truncated meta region"
                          ELSE IF d.metas = <<>> THEN "zero blocks"
                          ELSE "none"

\* C17: SsTable::open on a file that is truncated, whose meta_offset lies
\* outside the file, or whose meta region decodes to zero blocks returns
\* an error value and does not abort.
C17_OpenReturnsError ==
    (call # NoCall /\ call.fn = "open" /\ call.done
        /\ Malformed(call.file) # "none") => call.out.kind = "err"

\* open has returned a table for a well-formed file.
C17_OpensWellFormed ==
    /\ call # NoCall
    /\ call.fn = "open"
    /\ call.done
    /\ call.out.kind = "ok"
    /\ Len(call.out.block_metas) = MaxMetas

\* ------------------------------------------------------------ C21
\* The entries of a stream that the builder adds.
Added(it, t) ==
    IF compact_to_bottom_level(t) THEN Filter(it, {e \in Range(it) : e.value # Tomb})
    ELSE it

\* The estimated size of the builder once the entry at the head of the
\* iterator has been consumed.
SizeAfterEntry ==
    (IF call.builder = <<>> THEN 0 ELSE estimated_size(call.builder[1]))
        + Len(Added(<<Head(call.iter)>>, call.task))

\* The step pushes exactly one SST, or none.
Finalizes == Len(call'.new_ssts) = Len(call.new_ssts) + 1

KeepsNewSsts == call'.new_ssts = call.new_ssts

\* C21: the builder is finalized exactly when, after an entry has been
\* consumed, its estimated size is at least target_sst_size, and once
\* more at the end of the stream if a builder is in progress; a non-empty
\* stream whose total size stays below target_sst_size yields exactly one
\* SST, and an empty stream yields none.
C21_FinalizesAtTargetAndAtEnd ==
    /\ [][(call.fn = "while iter.is_valid()" /\ ~call.done) =>
            IF call.iter # <<>>
            THEN IF SizeAfterEntry >= call.target
                 THEN Finalizes ELSE KeepsNewSsts
            ELSE IF call.builder # <<>>
                 THEN Finalizes ELSE KeepsNewSsts]_vars
    /\ [](  (call.fn = "while iter.is_valid()" /\ call.done) =>
              /\ call.it = <<>> => call.new_ssts = <<>>
              /\ (call.it # <<>>
                    /\ Len(Added(call.it, call.task)) < call.target)
                     => Len(call.new_ssts) = 1)

\* A stream of several entries, all added, has stayed below
\* target_sst_size and was built into one SST at the end of the stream.
C21_Witness ==
    /\ call.fn = "while iter.is_valid()"
    /\ call.done
    /\ Len(call.it) > 1
    /\ Len(Added(call.it, call.task)) = Len(call.it)
    /\ Len(call.it) < call.target
    /\ call.new_ssts = <<call.it>>

\* ------------------------------------------------------------ C22
\* The ids of L0 that are not L0 inputs of the task, in the order of L0.
KeptL0(st, t) ==
    Filter(st.l0_sstables, Range(st.l0_sstables) \ Range(t.l0_sstables))

\* C22: the commit of force_full_compaction leaves every level deeper
\* than L1 unchanged, and keeps in l0_sstables, in their relative order,
\* exactly the L0 SSTs that were not inputs of its task.
C22_ForceFullFrame ==
    [][Publishes("ff") =>
          /\ \A i \in 2..MaxLevels : state'.levels[i] = state.levels[i]
          /\ state'.l0_sstables = KeptL0(state, task["ff"])]_vars

====
